---- MODULE Spec2Model ----
(***************************************************************************)
(* Model of dm-data-null-injector (src/main.py): inject_nulls, which       *)
(* overwrites cells of a pandas DataFrame with None, and main, the driver  *)
(* that loads a CSV file, injects nulls into a copy and writes the result. *)
(*                                                                         *)
(* Text (column names, cell strings, patterns, the --columns argument) is  *)
(* a sequence of one-character strings, so that str.strip, str.split and   *)
(* the regular-expression match are computed character by character.      *)
(* A probability or a random sample is a number of tenths: 10 is 1.0.      *)
(* An optional argument is None (<<>>) or Some(x) (<<x>>).                 *)
(***************************************************************************)
EXTENDS Integers, Sequences, FiniteSets, TLC

VARIABLES
    frames,         \* the DataFrame objects that exist: frame id -> table
    data,           \* inject_nulls' argument `data`: a DataFrame reference or another object
    probability,    \* inject_nulls' argument `probability`, in tenths
    pattern,        \* inject_nulls' argument `pattern`: None or Some(text)
    columns,        \* inject_nulls' argument `columns`: None or Some(list of names)
    data0,          \* the table `data` referred to when inject_nulls was entered
    pc,             \* position in inject_nulls
    cols,           \* local `cols` (line 49)
    ci,             \* position of `for col in cols` (1-based)
    ri,             \* position of `for index, value in data[col].items()` (the row index)
    err,            \* the exception inject_nulls raised, or NoError
    visited,        \* the cells the inner loop has yielded so far, in order: <<index, col>>
    sampled,        \* the cells for which random.random() has been called, in order
    log,            \* the records handed to the logging module, in order
    mpc,            \* position in main
    args,           \* main's `args` (the parsed command line)
    main_data,      \* main's `data`: the reference read_csv returned
    loaded,         \* the table read_csv returned
    masked_data,    \* main's `masked_data`: the reference inject_nulls returned
    output_file,    \* the tables written to args.output_file, in order
    steps,          \* the steps main has taken, in order
    escaped         \* the exception that left main, or NoError

inject_vars == <<frames, data, probability, pattern, columns, data0, pc, cols, ci, ri,
                 err, visited, sampled, log>>
main_vars == <<mpc, args, main_data, loaded, masked_data, output_file, steps, escaped>>
vars == <<frames, data, probability, pattern, columns, data0, pc, cols, ci, ri,
          err, visited, sampled, log,
          mpc, args, main_data, loaded, masked_data, output_file, steps, escaped>>

----------------------------------------------------------------------------
(* Bounds and input sets *)

\* number of rows of a table
NRows == 2

None == <<>>
Some(x) == <<x>>

\* the row labels of a table: pandas' default RangeIndex
Index == 0 .. (NRows - 1)

\* cell values
Str(s) == [type |-> "str", s |-> s]
Num(n) == [type |-> "num", n |-> n]
Bool(b) == [type |-> "bool", b |-> b]
Null == [type |-> "null"]

apple == <<"a", "p", "p", "l", "e">>
banana == <<"b", "a", "n", "a", "n", "a">>

ColA == <<"A">>
ColB == <<"B">>

\* the columns of the tables, in table order
TableColumns == <<ColA, ColB>>

\* the values a cell of each column is drawn from
CellValues(col) ==
    IF col = ColA THEN {Str(apple), Str(banana), Bool(TRUE)}
                  ELSE {Num(7), Null}

Range(s) == {s[i] : i \in DOMAIN s}

Tables ==
    {[columns |-> TableColumns, cells |-> c] :
        c \in {f \in [Range(TableColumns) -> [Index -> UNION {CellValues(x) : x \in Range(TableColumns)}]] :
                    \A x \in Range(TableColumns) : \A i \in Index : f[x][i] \in CellValues(x)}}

\* probabilities in tenths: -0.1, 0.0, 0.1 (the default), 1.0, 1.5
Probabilities == {-1, 0, 1, 10, 15}

\* the values random.random() returns, in tenths: 0.0 .. 0.9
Samples == 0 .. 9

\* patterns: "^a", "an", and the malformed "("
Patterns == {None, Some(<<"^", "a">>), Some(<<"a", "n">>), Some(<<"(">>)}

\* names a column selector may list: "A", " B " (needs trimming), "Z" (unknown)
SelNames == {<<"A">>, <<" ", "B", " ">>, <<"Z">>}

SelLists == {<<>>} \cup {<<a>> : a \in SelNames} \cup {<<a, b>> : a \in SelNames, b \in SelNames}

Selectors == {None} \cup {Some(l) : l \in SelLists}

----------------------------------------------------------------------------
(* Library functions the program calls *)

Whitespace == {" "}

RECURSIVE lstrip(_)
lstrip(s) == IF s # <<>> /\ Head(s) \in Whitespace THEN lstrip(Tail(s)) ELSE s

RECURSIVE rstrip(_)
rstrip(s) ==
    IF s # <<>> /\ s[Len(s)] \in Whitespace THEN rstrip(SubSeq(s, 1, Len(s) - 1)) ELSE s

\* str.strip()
strip(s) == rstrip(lstrip(s))

\* re.compile(pat) succeeds: the parentheses of pat are balanced
RECURSIVE Balanced(_, _, _)
Balanced(pat, i, depth) ==
    IF i > Len(pat) THEN depth = 0
    ELSE IF pat[i] = "(" THEN Balanced(pat, i + 1, depth + 1)
    ELSE IF pat[i] = ")" THEN depth > 0 /\ Balanced(pat, i + 1, depth - 1)
    ELSE Balanced(pat, i + 1, depth)

re_compiles(pat) == Balanced(pat, 1, 0)

\* the pattern from position i matches s at position j ("^", "$", "." and literals)
RECURSIVE MatchHere(_, _, _, _)
MatchHere(pat, i, s, j) ==
    IF i > Len(pat) THEN TRUE
    ELSE IF pat[i] = "^" THEN j = 1 /\ MatchHere(pat, i + 1, s, j)
    ELSE IF pat[i] = "$" THEN j = Len(s) + 1 /\ MatchHere(pat, i + 1, s, j)
    ELSE IF pat[i] = "." THEN j <= Len(s) /\ MatchHere(pat, i + 1, s, j + 1)
    ELSE j <= Len(s) /\ s[j] = pat[i] /\ MatchHere(pat, i + 1, s, j + 1)

\* re.search: a match starting anywhere (not what the program uses)
re_search(pat, s) == \E j \in 1 .. (Len(s) + 1) : MatchHere(pat, 1, s, j)

\* re.match, as Series.str.match applies it: a match starting at the first character
re_match(pat, s) == MatchHere(pat, 1, s, 1)

----------------------------------------------------------------------------
(* inject_nulls *)

NoError == "NoError"

DataFrame(ref) == [type |-> "DataFrame", ref |-> ref]
NotATable == [type |-> "list"]

\* isinstance(data, pd.DataFrame)
IsDataFrame(d) == d.type = "DataFrame"

ValidProbability_NoUpper(p) == 0 <= p

\* 0.0 <= probability <= 1.0
ValidProbability(p) == 0 <= p /\ p <= 10

\* the table `data` refers to
Table == frames[data.ref]

ResolveCols_All(tbl, selector) == tbl.columns

\* data.columns if columns is None else [col.strip() for col in columns]
ResolveCols(tbl, selector) ==
    IF selector = None THEN tbl.columns
    ELSE [i \in DOMAIN selector[1] |-> strip(selector[1][i])]

\* col in data.columns
HasColumn(tbl, col) == col \in Range(tbl.columns)

IsStr(value) == value.type = "str"

Matches_Search(pat, value) == re_search(pat, value.s)

\* bool(pd.Series(value).str.match(pattern)[0])
Matches(pat, value) == re_match(pat, value.s)

Eligible_StrOnly(pat, value) ==
    IF pat = None THEN IsStr(value) ELSE IsStr(value) /\ Matches(pat[1], value)

\* pattern is None or (isinstance(value, str) and bool(...match(pattern)[0]))
Eligible(pat, value) == IF pat = None THEN TRUE ELSE IsStr(value) /\ Matches(pat[1], value)

\* evaluating the condition of line 56 raises re.error
MatchRaises(pat, value) == pat # None /\ IsStr(value) /\ ~re_compiles(pat[1])

Nullify_Inclusive(sample, p) == sample <= p

\* random.random() < probability
Nullify(sample, p) == sample < p

SetAt_Column(tbl, index, col) == [tbl EXCEPT !.cells[col] = [i \in Index |-> Null]]

\* data.at[index, col] = None.  The cell becomes pandas' missing value (None in an
\* object column, NaN after the upcast of a numeric one): the null marker.  The other
\* cells of the column keep their values.
SetAt(tbl, index, col) == [tbl EXCEPT !.cells[col][index] = Null]

AfterSkip_Break(list, i) == Len(list) + 1

\* `continue` of line 53: the position of the outer loop after an unknown column
AfterSkip(list, i) == i + 1

Warning(col) == [level |-> "WARNING", event |-> "column not found", col |-> col]
Debug(index, col) == [level |-> "DEBUG", event |-> "replaced", index |-> index, col |-> col]
Error(event, e) == [level |-> "ERROR", event |-> event, exc |-> e]
Info(event) == [level |-> "INFO", event |-> event]

OnException_Swallow(e) == [pc |-> "returned", err |-> NoError, log |-> <<>>]

\* except Exception as e: logging.error(...); raise   (lines 60-62)
OnException(e) ==
    [pc |-> "raised", err |-> e, log |-> <<Error("null injection", e)>>]

\* lines 42-43
RaiseTypeError ==
    /\ pc = "entry"
    /\ ~IsDataFrame(data)
    /\ pc' = "raised"
    /\ err' = "TypeError"
    /\ UNCHANGED <<frames, data, probability, pattern, columns, data0, cols, ci, ri,
                   visited, sampled, log>>

\* lines 42-46
RaiseValueError ==
    /\ pc = "entry"
    /\ IsDataFrame(data)
    /\ ~ValidProbability(probability)
    /\ pc' = "raised"
    /\ err' = "ValueError"
    /\ UNCHANGED <<frames, data, probability, pattern, columns, data0, cols, ci, ri,
                   visited, sampled, log>>

\* lines 42-49: both checks pass, the column list is resolved
ResolveColumns ==
    /\ pc = "entry"
    /\ IsDataFrame(data)
    /\ ValidProbability(probability)
    /\ cols' = ResolveCols(Table, columns)
    /\ ci' = 1
    /\ ri' = 0
    /\ pc' = "loop"
    /\ UNCHANGED <<frames, data, probability, pattern, columns, data0, err,
                   visited, sampled, log>>

InColumn == pc = "loop" /\ ci <= Len(cols) /\ HasColumn(Table, cols[ci])
AtCell == InColumn /\ ri \in Index

\* the value the inner loop yields for the row ri.  data[col].items() is taken when
\* the column is entered; until a row is yielded, nothing writes its cell during that
\* pass, so the yielded value is the one the table holds.
Value == Table.cells[cols[ci]][ri]

\* lines 50-53: the column is not in the table
SkipColumn ==
    /\ pc = "loop"
    /\ ci <= Len(cols)
    /\ ~HasColumn(Table, cols[ci])
    /\ log' = Append(log, Warning(cols[ci]))
    /\ ci' = AfterSkip(cols, ci)
    /\ UNCHANGED <<frames, data, probability, pattern, columns, data0, pc, cols, ri,
                   err, visited, sampled>>

\* lines 55-56: the cell is not eligible
CellIneligible ==
    /\ AtCell
    /\ ~MatchRaises(pattern, Value)
    /\ ~Eligible(pattern, Value)
    /\ visited' = Append(visited, <<ri, cols[ci]>>)
    /\ ri' = ri + 1
    /\ UNCHANGED <<frames, data, probability, pattern, columns, data0, pc, cols, ci,
                   err, sampled, log>>

\* lines 55-57: the cell is eligible and the sample is not below the probability
CellKept ==
    /\ AtCell
    /\ ~MatchRaises(pattern, Value)
    /\ Eligible(pattern, Value)
    /\ \E sample \in Samples : ~Nullify(sample, probability)
    /\ visited' = Append(visited, <<ri, cols[ci]>>)
    /\ sampled' = Append(sampled, <<ri, cols[ci]>>)
    /\ ri' = ri + 1
    /\ UNCHANGED <<frames, data, probability, pattern, columns, data0, pc, cols, ci,
                   err, log>>

\* lines 55-59: the cell is eligible and the sample is below the probability
CellNullified ==
    /\ AtCell
    /\ ~MatchRaises(pattern, Value)
    /\ Eligible(pattern, Value)
    /\ \E sample \in Samples : Nullify(sample, probability)
    /\ visited' = Append(visited, <<ri, cols[ci]>>)
    /\ sampled' = Append(sampled, <<ri, cols[ci]>>)
    /\ frames' = [frames EXCEPT ![data.ref] = SetAt(@, ri, cols[ci])]
    /\ log' = Append(log, Debug(ri, cols[ci]))
    /\ ri' = ri + 1
    /\ UNCHANGED <<data, probability, pattern, columns, data0, pc, cols, ci, err>>

\* lines 55-56, 60-62: matching the pattern raises; the handler logs and re-raises
PatternError ==
    /\ AtCell
    /\ MatchRaises(pattern, Value)
    /\ visited' = Append(visited, <<ri, cols[ci]>>)
    /\ pc' = OnException("re.error").pc
    /\ err' = OnException("re.error").err
    /\ log' = log \o OnException("re.error").log
    /\ UNCHANGED <<frames, data, probability, pattern, columns, data0, cols, ci, ri,
                   sampled>>

\* line 55: the rows of the column are exhausted; line 50: the next column
EndColumn ==
    /\ InColumn
    /\ ri \notin Index
    /\ ci' = ci + 1
    /\ ri' = 0
    /\ UNCHANGED <<frames, data, probability, pattern, columns, data0, pc, cols,
                   err, visited, sampled, log>>

\* line 50: the columns are exhausted; line 64: return data
Return ==
    /\ pc = "loop"
    /\ ci > Len(cols)
    /\ pc' = "returned"
    /\ UNCHANGED <<frames, data, probability, pattern, columns, data0, cols, ci, ri,
                   err, visited, sampled, log>>

----------------------------------------------------------------------------
(* A direct call of inject_nulls *)

\* a call of inject_nulls(data, probability, pattern, columns)
InitCall ==
    /\ \E t \in Tables : frames = (1 :> t) /\ data0 = t
    /\ data \in {DataFrame(1), NotATable}
    /\ probability \in Probabilities
    /\ pattern \in Patterns
    /\ columns \in Selectors
    /\ pc = "entry"
    /\ cols = <<>>
    /\ ci = 1
    /\ ri = 0
    /\ err = NoError
    /\ visited = <<>>
    /\ sampled = <<>>
    /\ log = <<>>

MainIdle ==
    /\ mpc = "not running"
    /\ args = None
    /\ main_data = None
    /\ loaded = None
    /\ masked_data = None
    /\ output_file = <<>>
    /\ steps = <<>>
    /\ escaped = NoError

Init == InitCall /\ MainIdle

Next ==
    \/ RaiseTypeError /\ UNCHANGED main_vars
    \/ RaiseValueError /\ UNCHANGED main_vars
    \/ ResolveColumns /\ UNCHANGED main_vars
    \/ SkipColumn /\ UNCHANGED main_vars
    \/ CellIneligible /\ UNCHANGED main_vars
    \/ CellKept /\ UNCHANGED main_vars
    \/ CellNullified /\ UNCHANGED main_vars
    \/ PatternError /\ UNCHANGED main_vars
    \/ EndColumn /\ UNCHANGED main_vars
    \/ Return /\ UNCHANGED main_vars

Spec == Init /\ [][Next]_vars

----------------------------------------------------------------------------
(* main *)

\* the input file names of the command line: "t.csv", "T.CSV", "t.txt"
InputFiles == {<<"t", ".", "c", "s", "v">>, <<"T", ".", "C", "S", "V">>,
               <<"t", ".", "t", "x", "t">>}

\* the --columns values of the command line: absent, "", "A, B", "Z,A", "A,A"
ArgColumns == {None, Some(<<>>), Some(<<"A", ",", " ", "B">>), Some(<<"Z", ",", "A">>),
               Some(<<"A", ",", "A">>)}

\* the exceptions read_csv and to_csv raise in the model
ReadErrors == {"ParserError", "OSError"}
WriteErrors == {"OSError"}

lower_char(c) ==
    CASE c = "C" -> "c" [] c = "S" -> "s" [] c = "V" -> "v" [] c = "T" -> "t" [] OTHER -> c

\* str.lower()
lower(s) == [i \in DOMAIN s |-> lower_char(s[i])]

\* str.endswith(suffix)
endswith(s, suffix) ==
    Len(s) >= Len(suffix) /\ SubSeq(s, Len(s) - Len(suffix) + 1, Len(s)) = suffix

\* str.split(sep), sep one character
RECURSIVE split(_, _)
split(s, sep) ==
    IF \A i \in DOMAIN s : s[i] # sep THEN <<s>>
    ELSE LET k == CHOOSE i \in DOMAIN s : s[i] = sep /\ \A j \in 1 .. (i - 1) : s[j] # sep
         IN  <<SubSeq(s, 1, k - 1)>> \o split(SubSeq(s, k + 1, Len(s)), sep)

\* the base class of an exception class
Base(e) ==
    CASE e = "FileNotFoundError" -> "OSError"
      [] e = "ParserError" -> "ValueError"
      [] e \in {"OSError", "ValueError", "TypeError", "re.error"} -> "Exception"
      [] OTHER -> "BaseException"

RECURSIVE IsInstance(_, _)
IsInstance(e, cls) ==
    IF e = cls THEN TRUE ELSE IF e = "BaseException" THEN FALSE ELSE IsInstance(Base(e), cls)

\* the except clause of lines 101-108 that handles e, or "none"
ExceptClause(e) ==
    IF IsInstance(e, "FileNotFoundError") THEN "File error"
    ELSE IF IsInstance(e, "ValueError") THEN "Value error"
    ELSE IF IsInstance(e, "TypeError") THEN "Type error"
    ELSE IF IsInstance(e, "Exception") THEN "An unexpected error occurred"
    ELSE "none"

\* main's exit on an exception e raised inside its try block: the records logged and
\* the exception that leaves main
Caught(e) ==
    IF ExceptClause(e) = "none" THEN [log |-> <<>>, escaped |-> e]
    ELSE [log |-> <<Error(ExceptClause(e), e)>>, escaped |-> NoError]

DataCopy_Alias(ref) == ref

\* data.copy(): the reference of the new DataFrame
DataCopy(ref) == ref + 1

\* args.columns.split(',') if args.columns else None
SplitColumns(c) == IF c # None /\ c[1] # <<>> THEN Some(split(c[1], ",")) ELSE None

\* line 71: argparse rejects the command line and exits (SystemExit)
ArgparseExit ==
    /\ mpc = "start"
    /\ mpc' = "done"
    /\ escaped' = Caught("SystemExit").escaped
    /\ log' = log \o Caught("SystemExit").log
    /\ UNCHANGED <<frames, data, probability, pattern, columns, data0, pc, cols, ci, ri,
                   err, visited, sampled>>
    /\ UNCHANGED <<args, main_data, loaded, masked_data, output_file, steps>>

\* line 71: the command line is parsed
SetupArgparse ==
    /\ mpc = "start"
    /\ \E f \in InputFiles, p \in Probabilities, pat \in Patterns, c \in ArgColumns :
          args' = Some([input_file |-> f, probability |-> p, pattern |-> pat, columns |-> c])
    /\ mpc' = "check exists"
    /\ UNCHANGED inject_vars
    /\ UNCHANGED <<main_data, loaded, masked_data, output_file, steps, escaped>>

\* lines 74-75, 101-102: the input file does not exist
InputMissing ==
    /\ mpc = "check exists"
    /\ steps' = Append(steps, "exists")
    /\ log' = log \o Caught("FileNotFoundError").log
    /\ escaped' = Caught("FileNotFoundError").escaped
    /\ mpc' = "done"
    /\ UNCHANGED <<frames, data, probability, pattern, columns, data0, pc, cols, ci, ri,
                   err, visited, sampled>>
    /\ UNCHANGED <<args, main_data, loaded, masked_data, output_file>>

\* line 74: the input file exists
InputExists ==
    /\ mpc = "check exists"
    /\ steps' = Append(steps, "exists")
    /\ mpc' = "check extension"
    /\ UNCHANGED inject_vars
    /\ UNCHANGED <<args, main_data, loaded, masked_data, output_file, escaped>>

IsCsv == endswith(lower(args[1].input_file), <<".", "c", "s", "v">>)

\* lines 77-78, 103-104: the input file name does not end in .csv
NotCsv ==
    /\ mpc = "check extension"
    /\ ~IsCsv
    /\ steps' = Append(steps, "extension")
    /\ log' = log \o Caught("ValueError").log
    /\ escaped' = Caught("ValueError").escaped
    /\ mpc' = "done"
    /\ UNCHANGED <<frames, data, probability, pattern, columns, data0, pc, cols, ci, ri,
                   err, visited, sampled>>
    /\ UNCHANGED <<args, main_data, loaded, masked_data, output_file>>

\* line 77: the input file name ends in .csv
CsvExtension ==
    /\ mpc = "check extension"
    /\ IsCsv
    /\ steps' = Append(steps, "extension")
    /\ mpc' = "load"
    /\ UNCHANGED inject_vars
    /\ UNCHANGED <<args, main_data, loaded, masked_data, output_file, escaped>>

\* lines 81-82: read_csv returns a table
LoadData ==
    /\ mpc = "load"
    /\ steps' = Append(steps, "load")
    /\ \E t \in Tables :
          /\ frames' = (1 :> t)
          /\ loaded' = Some(t)
    /\ main_data' = Some(DataFrame(1))
    /\ mpc' = "inject"
    /\ UNCHANGED <<data, probability, pattern, columns, data0, pc, cols, ci, ri,
                   err, visited, sampled, log>>
    /\ UNCHANGED <<args, masked_data, output_file, escaped>>

\* lines 81-85, 101-108: read_csv raises; logged, re-raised and caught
LoadFails ==
    /\ mpc = "load"
    /\ steps' = Append(steps, "load")
    /\ \E e \in ReadErrors :
          /\ log' = Append(log, Error("Failed to read CSV file", e)) \o Caught(e).log
          /\ escaped' = Caught(e).escaped
    /\ mpc' = "done"
    /\ UNCHANGED <<frames, data, probability, pattern, columns, data0, pc, cols, ci, ri,
                   err, visited, sampled>>
    /\ UNCHANGED <<args, main_data, loaded, masked_data, output_file>>

\* lines 88, 91: inject_nulls is called with a copy of the loaded table
CallInject ==
    /\ mpc = "inject"
    /\ steps' = Append(steps, "inject")
    /\ LET r == main_data[1].ref
       IN  /\ frames' = (DataCopy(r) :> frames[r]) @@ frames
           /\ data' = DataFrame(DataCopy(r))
           /\ data0' = frames[r]
    /\ probability' = args[1].probability
    /\ pattern' = args[1].pattern
    /\ columns' = SplitColumns(args[1].columns)
    /\ pc' = "entry"
    /\ cols' = <<>>
    /\ ci' = 1
    /\ ri' = 0
    /\ err' = NoError
    /\ visited' = <<>>
    /\ sampled' = <<>>
    /\ mpc' = "in inject_nulls"
    /\ UNCHANGED <<log, args, main_data, loaded, masked_data, output_file, escaped>>

\* line 91: inject_nulls returned
InjectReturned ==
    /\ mpc = "in inject_nulls"
    /\ pc = "returned"
    /\ masked_data' = Some(data)
    /\ mpc' = "save"
    /\ UNCHANGED inject_vars
    /\ UNCHANGED <<args, main_data, loaded, output_file, steps, escaped>>

\* lines 91, 101-108: inject_nulls raised; caught
InjectRaised ==
    /\ mpc = "in inject_nulls"
    /\ pc = "raised"
    /\ log' = log \o Caught(err).log
    /\ escaped' = Caught(err).escaped
    /\ mpc' = "done"
    /\ UNCHANGED <<frames, data, probability, pattern, columns, data0, pc, cols, ci, ri,
                   err, visited, sampled>>
    /\ UNCHANGED <<args, main_data, loaded, masked_data, output_file, steps>>

\* lines 94-96: to_csv writes the masked table
SaveData ==
    /\ mpc = "save"
    /\ steps' = Append(steps, "write")
    /\ output_file' = Append(output_file, frames[masked_data[1].ref])
    /\ log' = Append(log, Info("Masked data saved"))
    /\ mpc' = "done"
    /\ UNCHANGED <<frames, data, probability, pattern, columns, data0, pc, cols, ci, ri,
                   err, visited, sampled>>
    /\ UNCHANGED <<args, main_data, loaded, masked_data, escaped>>

\* lines 94-99, 101-108: to_csv raises; logged, re-raised and caught
SaveFails ==
    /\ mpc = "save"
    /\ steps' = Append(steps, "write")
    /\ \E e \in WriteErrors :
          /\ log' = Append(log, Error("Failed to write CSV file", e)) \o Caught(e).log
          /\ escaped' = Caught(e).escaped
    /\ mpc' = "done"
    /\ UNCHANGED <<frames, data, probability, pattern, columns, data0, pc, cols, ci, ri,
                   err, visited, sampled>>
    /\ UNCHANGED <<args, main_data, loaded, masked_data, output_file>>

\* inject_nulls has not been called
InjectIdle ==
    /\ frames = <<>>
    /\ data = NotATable
    /\ probability = 0
    /\ pattern = None
    /\ columns = None
    /\ data0 = None
    /\ pc = "not called"
    /\ cols = <<>>
    /\ ci = 1
    /\ ri = 0
    /\ err = NoError
    /\ visited = <<>>
    /\ sampled = <<>>
    /\ log = <<>>

MainStart ==
    /\ mpc = "start"
    /\ args = None
    /\ main_data = None
    /\ loaded = None
    /\ masked_data = None
    /\ output_file = <<>>
    /\ steps = <<>>
    /\ escaped = NoError

InitMain == InjectIdle /\ MainStart

\* a run of main.  inject_nulls' TypeError branch is absent: main passes a DataFrame.
NextMain ==
    \/ ArgparseExit
    \/ SetupArgparse
    \/ InputMissing
    \/ InputExists
    \/ NotCsv
    \/ CsvExtension
    \/ LoadData
    \/ LoadFails
    \/ CallInject
    \/ RaiseValueError /\ UNCHANGED main_vars
    \/ ResolveColumns /\ UNCHANGED main_vars
    \/ SkipColumn /\ UNCHANGED main_vars
    \/ CellIneligible /\ UNCHANGED main_vars
    \/ CellKept /\ UNCHANGED main_vars
    \/ CellNullified /\ UNCHANGED main_vars
    \/ PatternError /\ UNCHANGED main_vars
    \/ EndColumn /\ UNCHANGED main_vars
    \/ Return /\ UNCHANGED main_vars
    \/ InjectReturned
    \/ InjectRaised
    \/ SaveData
    \/ SaveFails

SpecMain == InitMain /\ [][NextMain]_vars

----------------------------------------------------------------------------
(* Properties *)

\* inject_nulls has been entered with a DataFrame
Called == pc # "not called" /\ IsDataFrame(data)

TableCells == {<<i, c>> : i \in Index, c \in Range(TableColumns)}

Now(cell) == Table.cells[cell[2]][cell[1]]
AtEntry(cell) == data0.cells[cell[2]][cell[1]]

Count(seq, x) == Cardinality({k \in DOMAIN seq : seq[k] = x})

IsPrefix(a, b) == Len(a) <= Len(b) /\ \A k \in DOMAIN a : a[k] = b[k]

\* the selector's names, trimmed
TrimmedNames == {strip(columns[1][k]) : k \in DOMAIN columns[1]}

\* the table's columns the call is asked to process
Processed(c) == columns = None \/ c \in TrimmedNames

\* the cells of the column c in row order
RowsOf(c) == [k \in 1 .. NRows |-> <<k - 1, c>>]

RECURSIVE VisitsOf(_)
VisitsOf(list) ==
    IF list = <<>> THEN <<>> ELSE RowsOf(Head(list)) \o VisitsOf(Tail(list))

\* the names of list that are columns of the table, in order
KnownOf(list) == SelectSeq(list, LAMBDA n : n \in Range(data0.columns))

Requested == IF columns = None THEN data0.columns
             ELSE [k \in DOMAIN columns[1] |-> strip(columns[1][k])]

Warnings == SelectSeq(log, LAMBDA r : r.level = "WARNING")

\* C1: with probability 0.0, whatever the pattern, the selector and the samples, no
\* cell is overwritten: the table equals its input in every state of the call and no
\* replacement is logged.
C1_ZeroProbabilityIsNoOp ==
    (Called /\ probability = 0) =>
        /\ Table = data0
        /\ \A k \in DOMAIN log : log[k].level # "DEBUG"

C1_Witness ==
    /\ Called /\ probability = 0 /\ pc = "returned"
    /\ pattern # None /\ columns # None
    /\ sampled # <<>>

\* C2: with probability 1.0, no pattern and no selector, the returned table holds the
\* null marker in every cell, also where the input was null or not a string.
C2_FullProbabilityNullsEverything ==
    (Called /\ pc = "returned" /\ probability = 10 /\ pattern = None /\ columns = None) =>
        \A cell \in TableCells : Now(cell) = Null

C2_Witness ==
    /\ Called /\ pc = "returned" /\ probability = 10 /\ pattern = None /\ columns = None
    /\ \E cell \in TableCells : AtEntry(cell) = Null
    /\ \E cell \in TableCells : AtEntry(cell) = Bool(TRUE)
    /\ \A cell \in TableCells : Now(cell) = Null

\* C3: with a selector, every column whose name is not among the trimmed selector
\* names keeps its input values, in every state of the call; and with probability 1.0
\* and no pattern, every selected column of the table is fully null on return.
C3_ColumnRestriction ==
    (Called /\ columns # None) =>
        /\ \A c \in Range(data0.columns) :
              c \notin TrimmedNames => Table.cells[c] = data0.cells[c]
        /\ (pc = "returned" /\ probability = 10 /\ pattern = None) =>
              \A c \in Range(data0.columns) :
                  c \in TrimmedNames => \A i \in Index : Table.cells[c][i] = Null

C3_Witness ==
    /\ Called /\ pc = "returned" /\ probability = 10 /\ pattern = None
    /\ columns = Some(<< <<" ", "B", " ">> >>)
    /\ \E i \in Index : data0.cells[ColB][i] # Null
    /\ \A i \in Index : Table.cells[ColB][i] = Null
    /\ Table.cells[ColA] = data0.cells[ColA]

\* the pattern matches at the start of the cell's input value, a string
MatchingString(cell) == IsStr(AtEntry(cell)) /\ re_match(pattern[1], AtEntry(cell).s)

\* C4: with a pattern, only string cells the pattern matches at their start are ever
\* overwritten; with probability 1.0 the cells overwritten on return are exactly the
\* matching string cells of the processed columns.
C4_PatternRestriction ==
    (Called /\ pattern # None) =>
        IF re_compiles(pattern[1])
        THEN /\ \A cell \in TableCells : Now(cell) # AtEntry(cell) => MatchingString(cell)
             /\ (pc = "returned" /\ probability = 10) =>
                   \A cell \in TableCells :
                       Now(cell) # AtEntry(cell) <=> (Processed(cell[2]) /\ MatchingString(cell))
        ELSE Table = data0

C4_Witness ==
    /\ Called /\ pc = "returned" /\ probability = 10 /\ pattern = Some(<<"^", "a">>)
    /\ columns = None
    /\ data0.cells[ColA][0] = Str(apple) /\ Table.cells[ColA][0] = Null
    /\ data0.cells[ColA][1] = Str(banana) /\ Table.cells[ColA][1] = Str(banana)
    /\ data0.cells[ColB][0] = Num(7) /\ Table.cells[ColB][0] = Num(7)

\* C5: a non-table argument raises TypeError and a probability outside [0.0, 1.0]
\* raises ValueError, in both cases before any cell is visited, sampled or overwritten;
\* the probabilities 0.0 and 1.0 are accepted.
C5_ValidationFailsFast ==
    /\ (pc # "not called" /\ pc # "entry" /\ ~IsDataFrame(data)) =>
          /\ pc = "raised" /\ err = "TypeError"
          /\ visited = <<>> /\ sampled = <<>> /\ frames[1] = data0
    /\ (Called /\ pc # "entry" /\ (probability < 0 \/ probability > 10)) =>
          /\ pc = "raised" /\ err = "ValueError"
          /\ visited = <<>> /\ sampled = <<>> /\ Table = data0
    /\ (Called /\ probability >= 0 /\ probability <= 10) => err \notin {"TypeError", "ValueError"}

C5_Witness ==
    /\ Called /\ pc = "raised" /\ err = "ValueError" /\ probability = 15
    /\ \E cell \in TableCells : AtEntry(cell) # Null

\* C6: a selector name that is not a column of the table raises nothing and is logged
\* as a warning; the cells visited are those of the selector's other names, in the
\* same order, wherever the unknown name stands.
C6_UnknownColumnsSkipped ==
    (Called /\ pc \in {"loop", "returned", "raised"}) =>
        /\ IsPrefix(visited, VisitsOf(KnownOf(Requested)))
        /\ pc = "returned" =>
              /\ visited = VisitsOf(KnownOf(Requested))
              /\ Len(Warnings) = Len(Requested) - Len(KnownOf(Requested))
        /\ (pc = "raised" /\ probability >= 0 /\ probability <= 10) =>
              (err = "re.error" /\ pattern # None /\ ~re_compiles(pattern[1]))
        /\ \A k \in DOMAIN Warnings : Warnings[k].col \notin Range(data0.columns)

C6_Witness ==
    /\ Called /\ pc = "returned"
    /\ columns = Some(<< <<"Z">>, <<"A">> >>)
    /\ Len(Warnings) = 1
    /\ visited = RowsOf(ColA)
    /\ \E i \in Index : Table.cells[ColA][i] # data0.cells[ColA][i]

\* C7: during one call, for every selector, each cell is visited at most once and has
\* a random sample drawn for it at most once, and the cells are visited column by
\* column, row by row.
C7_EachCellSampledAtMostOnce ==
    Called =>
        /\ \A cell \in TableCells : Count(visited, cell) <= 1 /\ Count(sampled, cell) <= 1
        /\ IsPrefix(visited, VisitsOf(KnownOf(Requested)))

\* a failure has happened while iterating: the last cell yielded is a string and the
\* pattern does not compile
IterationFailed ==
    /\ visited # <<>>
    /\ pattern # None
    /\ ~re_compiles(pattern[1])
    /\ IsStr(AtEntry(visited[Len(visited)]))

InjectionErrors == SelectSeq(log, LAMBDA r : r.level = "ERROR" /\ r.event = "null injection")

\* C8: a failure raised while iterating over the cells is logged at error level and
\* the same error is raised to the caller; the call does not return normally after it,
\* and no error is logged or raised without such a failure.
C8_IterationFailureLoggedAndReraised ==
    Called =>
        /\ IterationFailed =>
              /\ pc = "raised" /\ err = "re.error"
              /\ Len(InjectionErrors) = 1 /\ InjectionErrors[1].exc = "re.error"
        /\ ~IterationFailed =>
              /\ InjectionErrors = <<>>
              /\ pc = "raised" => err \in {"TypeError", "ValueError"}

C8_Witness ==
    /\ Called /\ pc = "raised" /\ err = "re.error"
    /\ Len(visited) = 2
    /\ InjectionErrors # <<>>

MainSteps == <<"exists", "extension", "load", "inject", "write">>

Ineligible(cell) ==
    \/ ~Processed(cell[2])
    \/ pattern # None /\ re_compiles(pattern[1]) /\ ~MatchingString(cell)

C10_State ==
    Called =>
        /\ Table.columns = data0.columns
        /\ DOMAIN Table.cells = DOMAIN data0.cells
        /\ \A c \in Range(Table.columns) : DOMAIN Table.cells[c] = DOMAIN data0.cells[c]
        /\ \A cell \in TableCells :
              /\ Now(cell) \in {AtEntry(cell), Null}
              /\ Ineligible(cell) => Now(cell) = AtEntry(cell)

C10_Step ==
    Called =>
        \A cell \in TableCells :
            Now(cell) = Null => frames'[data'.ref].cells[cell[2]][cell[1]] = Null

\* C10: in every state of inject_nulls, also where an error is raised, the table has
\* the columns and row indices it had on entry and every cell holds its entry value or
\* the null marker; a null cell never becomes non-null; a cell that is ineligible
\* under the pattern or in a column that is not processed holds its entry value.
C10_TableInvariant == [](C10_State) /\ [][C10_Step]_vars

C10_Witness ==
    /\ Called /\ pc = "loop" /\ pattern # None /\ columns # None
    /\ \E cell \in TableCells : Now(cell) = Null /\ AtEntry(cell) # Null
    /\ \E cell \in TableCells : Ineligible(cell) /\ IsStr(AtEntry(cell))
    /\ ri \in Index

====
